---- MODULE Spec2Model ----
(***************************************************************************)
(* Real-time notification subsystem: connection registry, authentication   *)
(* handshake, topic fan-out and the Redis-backed offline buffer.           *)
(*                                                                         *)
(* Strings that take part in key derivation are sequences of colon-free    *)
(* segments, so that `a:b` is <<"a","b">> and string interpolation with    *)
(* ':' is sequence concatenation.                                          *)
(***************************************************************************)
EXTENDS Integers, Sequences, FiniteSets, TLC

\* ------------------------------------------------------------------ bounds
MaxConns == 2
MaxCloses == 1
\* handshake specification
MaxAuthFrames == 2
MaxAuthAdvance == 1
\* fan-out specification
MaxFrames == 2
MaxPublish == 1
\* replay specification
MaxReplayFrames == 2
MaxReplayPublish == 2
MaxReplayAdvance == 1
MaxReplayFaults == 1
\* delivery specification
MaxDeliveryPublish == 1
MaxDeliverySends == 1
\* session specification
MaxSessionFrames == 1
MaxSessionPublish == 1
\* outage specification
MaxOutagePublish == 2
MaxOutageRejects == 2
\* liveness specification
MaxTicks == 2
MaxSweeps == 1
\* termination specification
MaxTermFrames == 2
\* key specification
MaxKeyFrames == 2
MaxKeyPublish == 1
\* buffer specification
MaxBufferPublish == 52
MaxBufferAdvance == 1
MaxInFlight == 2

\* ------------------------------------------------------- program constants
AUTH_TIMEOUT_MS == 10000
INVALID_MESSAGE_CODE == 4002
AUTH_FAILED_CODE == 4001
MISSING_USER_CODE == 4003
AUTH_TIMEOUT_CODE == 4008
MESSAGE_EXPIRY_MS == 300000
BUFFER_MAX_LENGTH == 50
BUFFER_EXPIRY_SECONDS == 86400

StartTime == 1000

\* ------------------------------------------------------------- value sets
Conns == 1..MaxConns
Topics == {<<"t1">>, <<"t2">>}
Subjects == {<<"u1">>, <<"u2">>}
NoUser == <<>>

\* `apple:${userId}`
ApplePrefix(sub) == <<"apple">> \o sub

Identities == {ApplePrefix(s) : s \in Subjects}
AllIds == Identities \cup Subjects

TokA == <<"A">>
TokB == <<"B">>
TokX == <<"X">>
EmptyTok == <<>>
Tokens == {TokA, TokB, TokX}
\* every string a token field can hold
TokenStrings == Tokens \cup {EmptyTok}

\* the subject Apple signs into a token; <<>> for a token that does not verify
SubjectOf(tok) ==
  IF tok = TokA THEN <<"u1">> ELSE IF tok = TokB THEN <<"u2">> ELSE <<>>

\* `ws:buffer:${userId}:${topic}`
BufferKey(userId, topic) == <<"ws", "buffer">> \o userId \o topic
KeySpace == {BufferKey(u, t) : u \in AllIds, t \in Topics}

\* ------------------------------------------------------ client messages
\* a parsed client frame: JSON.parse output reduced to the fields the type
\* guards read
Frame(obj, type, tokStr, tok, topStr, top) ==
  [isObject |-> obj, type |-> type, tokenIsString |-> tokStr, token |-> tok,
   topicIsString |-> topStr, topic |-> top]
AuthFrame(tok) == Frame(TRUE, "auth", TRUE, tok, FALSE, <<>>)
SubscribeFrame(t) == Frame(TRUE, "subscribe", FALSE, <<>>, TRUE, t)
UnsubscribeFrame(t) == Frame(TRUE, "unsubscribe", FALSE, <<>>, TRUE, t)
PingFrame == Frame(TRUE, "ping", FALSE, <<>>, FALSE, <<>>)

\* what a client sends before it is authenticated
HandshakeFrames ==
  {AuthFrame(tok) : tok \in Tokens \cup {EmptyTok}}
    \cup {Frame(TRUE, "auth", FALSE, <<>>, FALSE, <<>>),
          SubscribeFrame(<<"t1">>), PingFrame,
          Frame(FALSE, "", FALSE, <<>>, FALSE, <<>>)}

\* what a client sends once authenticated
SessionFrames ==
  {SubscribeFrame(t) : t \in Topics} \cup {UnsubscribeFrame(<<"t1">>)}

\* whatever a client can send once authenticated: the three session frames,
\* an auth frame, a subscribe without a topic or with an empty one, an
\* unsubscribe without a topic, a frame of an unknown type, a JSON value that
\* is no object
SessionInputs ==
  {SubscribeFrame(<<"t1">>), UnsubscribeFrame(<<"t1">>), UnsubscribeFrame(<<"t2">>),
   PingFrame, AuthFrame(TokA),
   Frame(TRUE, "subscribe", FALSE, <<>>, FALSE, <<>>),
   Frame(TRUE, "subscribe", FALSE, <<>>, TRUE, <<>>),
   Frame(TRUE, "unsubscribe", FALSE, <<>>, FALSE, <<>>),
   Frame(TRUE, "status", FALSE, <<>>, FALSE, <<>>),
   Frame(FALSE, "", FALSE, <<>>, FALSE, <<>>)}

\* the guard without the token.length > 0 test
isAuthMessage_anyToken(data) ==
  data.isObject /\ data.type = "auth" /\ data.tokenIsString

isAuthMessage(data) ==
  data.isObject /\ data.type = "auth" /\ data.tokenIsString /\ Len(data.token) > 0

isSubscribeMessage(data) ==
  data.isObject /\ data.type = "subscribe" /\ data.topicIsString /\ Len(data.topic) > 0

isUnsubscribeMessage(data) ==
  data.isObject /\ data.type = "unsubscribe" /\ data.topicIsString /\ Len(data.topic) > 0

isPingMessage(data) == data.isObject /\ data.type = "ping"

\* ------------------------------------------------------------------ state
VARIABLES
  conn,             \* per connection: the WebSocketClient object
  clientsByUserId,  \* identity -> set of connections (registry index)
  store,            \* Redis lists, by key; <<>> is an absent key
  ttl,              \* Redis key expiry, by key: a time, or NoExpiry
  cache,            \* token -> cached verification result
  tasks,            \* handlers suspended in performAuthentication
  pending,          \* handlers awaiting a Redis reply, in command order
  sent,             \* per connection: frames written to the peer, in order
  now,              \* Date.now()
  manager,          \* the WebSocketManager: server, interval timers, local buffer
  count,            \* how often each bounded input was used
  limit             \* how often each bounded input may be used

vars == <<conn, clientsByUserId, store, ttl, cache, tasks, pending, sent, now, manager,
          count, limit>>

NoTimer == -1
NoExpiry == 0

\* admittedAt and gotMessage are history: when the connection was admitted,
\* whether a frame of it was handled; sendFails tells that ws.send throws on
\* this socket; terminated that the server destroyed the socket
FreshConn ==
  [readyState |-> "NONE", isAuthenticating |-> TRUE, userId |-> NoUser,
   subscribedTopics |-> {}, authTimer |-> NoTimer, closeCode |-> 0,
   admittedAt |-> 0, gotMessage |-> FALSE, sendFails |-> FALSE,
   isAlive |-> TRUE, terminated |-> FALSE]

\* ------------------------------------------------------ transport helpers
\* ws.close(code): starts the closing handshake of an open socket only
wsClose(cn, c, code) ==
  IF cn[c].readyState = "OPEN"
    THEN [cn EXCEPT ![c].readyState = "CLOSING", ![c].closeCode = code]
    ELSE cn

\* a send that does not look at readyState
wsSend_anyState(log, cn, c, frames) == [log EXCEPT ![c] = @ \o frames]

\* ws.send(frame): a frame reaches the peer only from an open socket
wsSend(log, cn, c, frames) ==
  IF cn[c].readyState = "OPEN" THEN [log EXCEPT ![c] = @ \o frames] ELSE log

\* ------------------------------------------------------------- registry
\* a Map entry: has = FALSE is an absent key
NoEntry == [has |-> FALSE, set |-> {}]

RegGet(reg, u) == IF reg[u].has THEN reg[u].set ELSE {}

\* promote: index the connection under its identity; no-op once it is closed
addClientToUser(reg, cn, u, c) ==
  IF cn[c].readyState = "CLOSED" THEN reg
  ELSE [reg EXCEPT ![u] = [has |-> TRUE, set |-> RegGet(reg, u) \cup {c}]]

\* a close handler that leaves the emptied entry in the index
removeClient_keepEmpty(reg, u, c) ==
  IF u \in DOMAIN reg /\ reg[u].has THEN [reg EXCEPT ![u].set = @ \ {c}] ELSE reg

\* deregister: this.clients.get(userId)?.delete(ws); drop the emptied entry
removeClient(reg, u, c) ==
  IF u \in DOMAIN reg /\ reg[u].has
    THEN IF reg[u].set \ {c} = {} THEN [reg EXCEPT ![u] = NoEntry]
         ELSE [reg EXCEPT ![u].set = @ \ {c}]
    ELSE reg

\* ----------------------------------------------------- verification cache
Result(ok, u) == [success |-> ok, userId |-> u]
NoCached == [has |-> FALSE, res |-> Result(FALSE, NoUser)]

\* getCachedAppleAuth(token)
getCachedAppleAuth(ch, tok) == ch[tok]

\* a cache that records every verification as a success
cacheAppleAuthResult_asSuccess(ch, tok, res) ==
  [ch EXCEPT ![tok] = [has |-> TRUE, res |-> [res EXCEPT !.success = TRUE]]]

\* cacheAppleAuthResult(token, verificationResult): stores the result as given
cacheAppleAuthResult(ch, tok, res) == [ch EXCEPT ![tok] = [has |-> TRUE, res |-> res]]

\* verifyAppleToken(token): the outcomes the verifier can return for a token;
\* a token that verifies can still fail (key fetch error)
verifyAppleToken(tok) ==
  IF SubjectOf(tok) # <<>>
    THEN {Result(TRUE, SubjectOf(tok)), Result(FALSE, NoUser)}
    ELSE {Result(FALSE, NoUser)}

\* ------------------------------------------------------- suspended tasks
\* a handler parked in performAuthentication; dup tells apart two handlers
\* that are otherwise equal
AuthTask(c, stage, token, cached) ==
  [c |-> c, stage |-> stage, token |-> token, cached |-> cached, dup |-> 0]

AddTask(ts, t) ==
  LET k == CHOOSE n \in 0..Cardinality(ts) :
             /\ [t EXCEPT !.dup = n] \notin ts
             /\ \A m \in 0..(n - 1) : [t EXCEPT !.dup = m] \in ts
  IN ts \cup {[t EXCEPT !.dup = k]}

\* a handler parked on a Redis command; the client answers commands in the
\* order they were issued, so the handlers resume in queue order
\* held and mark are history: the list as the subscribe frame found it, and
\* how many frames the connection had been sent by then
RedisTask(kind, c, u, topic, n, messages, held, mark) ==
  [kind |-> kind, c |-> c, user |-> u, topic |-> topic, n |-> n, messages |-> messages,
   held |-> held, mark |-> mark]

NoCounts == [msgs |-> 0, pubs |-> 0, sends |-> 0, advances |-> 0, closes |-> 0,
             faults |-> 0, rejects |-> 0, ticks |-> 0, sweeps |-> 0]

\* the budgets of a run that rejects no enqueue and has no interval timer
NoOutage(lim) == lim @@ [rejects |-> 0, ticks |-> 0, sweeps |-> 0]

\* a WebSocketManager that was not initialized
NoManager == [wss |-> "NONE", pingInterval |-> FALSE, cleanupInterval |-> FALSE,
              messageBuffer |-> <<>>]

Init ==
  /\ conn = [c \in Conns |-> FreshConn]
  /\ clientsByUserId = [u \in AllIds |-> NoEntry]
  /\ store = [k \in KeySpace |-> <<>>]
  /\ ttl = [k \in KeySpace |-> NoExpiry]
  /\ cache = [tok \in TokenStrings |-> NoCached]
  /\ tasks = {}
  /\ manager = NoManager
  /\ pending = <<>>
  /\ sent = [c \in Conns |-> <<>>]
  /\ now = StartTime
  /\ count = NoCounts
  /\ limit = NoOutage([msgs |-> MaxAuthFrames, pubs |-> 0, sends |-> 0,
              advances |-> MaxAuthAdvance, closes |-> MaxCloses, faults |-> 0])

\* ----------------------------------------------------- connection admission
\* register(conn): unauthenticated, authentication timer armed
Admit(c) ==
  /\ conn[c].readyState = "NONE"
  /\ \A d \in Conns : d < c => conn[d].readyState # "NONE"
  /\ conn' = [conn EXCEPT ![c] = [FreshConn EXCEPT !.readyState = "OPEN",
                                    !.authTimer = now + AUTH_TIMEOUT_MS,
                                    !.admittedAt = now]]
  /\ UNCHANGED <<clientsByUserId, store, ttl, cache, tasks, pending, sent, now, count>>

\* a timer callback that closes with the invalid-message code
AuthTimeout_invalidCode(c) ==
  /\ conn[c].authTimer # NoTimer
  /\ now >= conn[c].authTimer
  /\ conn' = wsClose([conn EXCEPT ![c].authTimer = NoTimer], c, INVALID_MESSAGE_CODE)
  /\ UNCHANGED <<clientsByUserId, store, ttl, cache, tasks, pending, sent, now, count>>

\* the authentication timer fires: close with the timeout code
AuthTimeout(c) ==
  /\ conn[c].authTimer # NoTimer
  /\ now >= conn[c].authTimer
  /\ conn' = wsClose([conn EXCEPT ![c].authTimer = NoTimer], c, AUTH_TIMEOUT_CODE)
  /\ UNCHANGED <<clientsByUserId, store, ttl, cache, tasks, pending, sent, now, count>>

\* the peer's close frame arrives: the socket is closing, 'close' not yet emitted
PeerClosing(c) ==
  /\ conn[c].readyState = "OPEN"
  /\ count.closes < limit.closes
  /\ count' = [count EXCEPT !.closes = @ + 1]
  /\ conn' = [conn EXCEPT ![c].readyState = "CLOSING"]
  /\ UNCHANGED <<clientsByUserId, store, ttl, cache, tasks, pending, sent, now>>

\* 'close' is emitted (end of a closing handshake, or the transport dropped)
\* and the close handler runs
CloseEvent(c) ==
  /\ conn[c].readyState \in {"OPEN", "CLOSING"}
  /\ IF conn[c].readyState = "OPEN"
       THEN /\ count.closes < limit.closes
            /\ count' = [count EXCEPT !.closes = @ + 1]
       ELSE count' = count
  /\ conn' = [conn EXCEPT ![c].readyState = "CLOSED", ![c].authTimer = NoTimer]
  /\ clientsByUserId' = removeClient(clientsByUserId, conn[c].userId, c)
  /\ UNCHANGED <<store, ttl, cache, tasks, pending, sent, now>>

\* ------------------------------------------------ authentication handshake
AuthSuccessFrame(u) == [type |-> "auth_success", userId |-> u]
ConnectedFrame(u) == [type |-> "connected", userId |-> u]

\* handleAuthMessage up to its await; getCachedAppleAuth reads the cache
RecvUnauthenticated(c, data) ==
  /\ conn[c].readyState \in {"OPEN", "CLOSING"}
  /\ conn[c].isAuthenticating
  /\ count.msgs < limit.msgs
  /\ count' = [count EXCEPT !.msgs = @ + 1]
  /\ LET cleared == [conn EXCEPT ![c].authTimer = NoTimer, ![c].gotMessage = TRUE]
     IN IF ~isAuthMessage(data)
          THEN /\ conn' = wsClose(cleared, c, INVALID_MESSAGE_CODE)
               /\ tasks' = tasks
          ELSE /\ conn' = cleared
               /\ tasks' = AddTask(tasks,
                    AuthTask(c, "cache", data.token, getCachedAppleAuth(cache, data.token)))
  /\ UNCHANGED <<clientsByUserId, store, ttl, cache, pending, sent, now>>

\* a failure branch that leaves the connection as it is
AuthConn_keepOpen(cn, c, r) ==
  IF r.success
    THEN [cn EXCEPT ![c].userId = r.userId, ![c].isAuthenticating = FALSE]
    ELSE cn

\* handleAuthMessage after performAuthentication returned authResult
AuthConn(cn, c, r) ==
  IF r.success
    THEN [cn EXCEPT ![c].userId = r.userId, ![c].isAuthenticating = FALSE]
    ELSE wsClose(cn, c, AUTH_FAILED_CODE)

AuthReg(reg, cn, c, r) ==
  IF r.success THEN addClientToUser(reg, cn, r.userId, c) ELSE reg

AuthSent(log, cn, c, r) ==
  IF r.success
    THEN wsSend(log, cn, c, <<AuthSuccessFrame(r.userId), ConnectedFrame(r.userId)>>)
    ELSE log

\* performAuthentication: getCachedAppleAuth resolved
AuthCacheReply(t) ==
  /\ t \in tasks /\ t.stage = "cache"
  /\ IF t.cached.has
       THEN /\ tasks' = tasks \ {t}
            /\ conn' = AuthConn(conn, t.c, t.cached.res)
            /\ clientsByUserId' = AuthReg(clientsByUserId, conn, t.c, t.cached.res)
            /\ sent' = AuthSent(sent, conn, t.c, t.cached.res)
       ELSE /\ tasks' = (tasks \ {t}) \cup {[t EXCEPT !.stage = "verify"]}
            /\ UNCHANGED <<conn, clientsByUserId, sent>>
  /\ UNCHANGED <<store, ttl, cache, pending, now, count>>

\* the result performAuthentication builds from a fresh verification
FreshResult(v) ==
  IF v.success THEN Result(TRUE, ApplePrefix(v.userId)) ELSE Result(FALSE, NoUser)

\* performAuthentication: verifyAppleToken resolved, result cached
AuthVerifyReply(t, v) ==
  /\ t \in tasks /\ t.stage = "verify"
  /\ v \in verifyAppleToken(t.token)
  /\ cache' = cacheAppleAuthResult(cache, t.token, v)
  /\ tasks' = tasks \ {t}
  /\ conn' = AuthConn(conn, t.c, FreshResult(v))
  /\ clientsByUserId' = AuthReg(clientsByUserId, conn, t.c, FreshResult(v))
  /\ sent' = AuthSent(sent, conn, t.c, FreshResult(v))
  /\ UNCHANGED <<store, ttl, pending, now, count>>

\* a cache entry reaches the end of its validity window
CacheExpire(tok) ==
  /\ cache[tok].has
  /\ cache' = [cache EXCEPT ![tok] = NoCached]
  /\ UNCHANGED <<conn, clientsByUserId, store, ttl, tasks, pending, sent, now, count>>

\* --------------------------------------------------------------- the clock
\* time passes; an armed timer fires before time moves past its deadline
Advance(d) ==
  /\ count.advances < limit.advances
  /\ \A c \in Conns : conn[c].authTimer # NoTimer => now + d <= conn[c].authTimer
  /\ now' = now + d
  /\ count' = [count EXCEPT !.advances = @ + 1]
  /\ UNCHANGED <<conn, clientsByUserId, store, ttl, cache, tasks, pending, sent>>

\* ----------------------------------------------------- the offline buffer
\* a WebSocketMessage {type, timestamp, payload}; timestamp 0 is a missing one
EventData(p, ts) == [type |-> "event", id |-> p, timestamp |-> ts]

\* bufferMessage: {data: {...data, timestamp: data.timestamp || now}, timestamp: Date.now()}
messageToStore(data, t) ==
  [data |-> [data EXCEPT !.timestamp = IF data.timestamp # 0 THEN data.timestamp ELSE t],
   timestamp |-> t]

\* redis RPUSH / LTRIM key -n -1 / DEL
rPush(st, key, value) == [st EXCEPT ![key] = Append(@, value)]

\* a trim that keeps the head of the list
lTrimLast_keepOldest(list, n) ==
  IF Len(list) <= n THEN list ELSE SubSeq(list, 1, n)

lTrimLast(list, n) ==
  IF Len(list) <= n THEN list ELSE SubSeq(list, Len(list) - n + 1, Len(list))

\* a DEL that removes every key
del_everyKey(st, key) == [k \in DOMAIN st |-> <<>>]

\* a DEL that leaves the key in place
del_keep(st, key) == st

del(st, key) == [st EXCEPT ![key] = <<>>]

\* a parse loop without the age test
RECURSIVE messagesToSend_noExpiry(_, _)
messagesToSend_noExpiry(list, t) ==
  IF list = <<>> THEN <<>>
  ELSE IF Head(list).timestamp # 0
    THEN <<Head(list).data>> \o messagesToSend_noExpiry(Tail(list), t)
    ELSE messagesToSend_noExpiry(Tail(list), t)

\* sendBufferedMessages, the parse loop: the entries to send, in list order
RECURSIVE messagesToSend(_, _)
messagesToSend(list, t) ==
  IF list = <<>> THEN <<>>
  ELSE LET msg == Head(list)
           rest == messagesToSend(Tail(list), t)
       IN IF msg.timestamp # 0 /\ (t - msg.timestamp) < MESSAGE_EXPIRY_MS
            THEN <<msg.data>> \o rest
            ELSE rest

\* a loop that counts no entry as expired
discardedCount_none(list, t) == 0

\* expiredCount + parseErrorCount of that loop
discardedCount(list, t) == Len(list) - Len(messagesToSend(list, t))

\* a frame as the peer sees it, with the route it took
Delivered(data, via, u, topic) ==
  [type |-> data.type, id |-> data.id, timestamp |-> data.timestamp,
   via |-> via, user |-> u, topic |-> topic]

\* --------------------------------------------------------------- fan-out
\* the forEach without the subscribedTopics.has(topic) test
SubscribedClients_noTopic(u, topic) ==
  {c \in RegGet(clientsByUserId, u) :
     /\ conn[c].userId # NoUser /\ conn[c].userId = u /\ ~conn[c].isAuthenticating
     /\ conn[c].readyState = "OPEN"}

\* the forEach over every client of the server instead of the identity's set
SubscribedClients_anyUser(u, topic) ==
  {c \in Conns :
     /\ conn[c].userId # NoUser /\ ~conn[c].isAuthenticating
     /\ conn[c].readyState = "OPEN"
     /\ topic \in conn[c].subscribedTopics}

\* the connections the forEach of sendToSubscribedClients sends to
SubscribedClients(u, topic) ==
  {c \in RegGet(clientsByUserId, u) :
     /\ conn[c].userId # NoUser /\ conn[c].userId = u /\ ~conn[c].isAuthenticating
     /\ conn[c].readyState = "OPEN"
     /\ topic \in conn[c].subscribedTopics}

\* a loop that a throwing client.send aborts
Receivers_abortOnThrow(targets) ==
  IF \E c \in targets : conn[c].sendFails THEN {} ELSE targets

\* the targets whose client.send returns; a throw is caught per client
Receivers(targets) == {c \in targets : ~conn[c].sendFails}

\* without the early return for an identity that has no clients
Buffers_sentOnly(size, sentCount) == sentCount = 0 /\ size > 0

\* buffering whatever was sent
Buffers_always(size, sentCount) == TRUE

\* buffering for an identity without clients only
Buffers_noClientsOnly(size, sentCount) == size = 0

\* buffering whenever the identity has clients
Buffers_whenClients(size, sentCount) == size > 0

\* whether sendToSubscribedClients hands the payload to bufferMessage
Buffers(size, sentCount) == size = 0 \/ (sentCount = 0 /\ size > 0)

\* sendToSubscribedClients with the synchronous head of bufferMessage (rPush);
\* a rejected rPush stores nothing and ends bufferMessage in its catch block
sendToSubscribedClients(u, topic) ==
  /\ count.pubs < limit.pubs
  /\ LET data == EventData(count.pubs + 1, now)
         userClients == RegGet(clientsByUserId, u)
         targets == IF userClients = {} THEN {} ELSE Receivers(SubscribedClients(u, topic))
     IN /\ sent' = [c \in Conns |->
                      IF c \in targets
                        THEN Append(sent[c], Delivered(data, "publish", u, topic))
                        ELSE sent[c]]
        /\ IF Buffers(Cardinality(userClients), Cardinality(targets))
             THEN \/ /\ store' = rPush(store, BufferKey(u, topic), messageToStore(data, now))
                     /\ pending' = Append(pending,
                          RedisTask("rPush", 0, u, topic, data.id, <<>>, <<>>, 0))
                     /\ count' = [count EXCEPT !.pubs = @ + 1]
                  \/ /\ count.rejects < limit.rejects
                     /\ count' = [count EXCEPT !.pubs = @ + 1, !.rejects = @ + 1]
                     /\ UNCHANGED <<store, pending>>
             ELSE /\ count' = [count EXCEPT !.pubs = @ + 1]
                  /\ UNCHANGED <<store, pending>>
  /\ UNCHANGED <<conn, clientsByUserId, ttl, cache, tasks, now>>

\* redis EXPIRE key seconds: no effect on an absent key
expire(tl, st, key, seconds, t) ==
  IF st[key] # <<>> THEN [tl EXCEPT ![key] = t + seconds * 1000] ELSE tl

\* bufferMessage after rPush resolved: lTrim
BufferTrim ==
  /\ pending # <<>> /\ Head(pending).kind = "rPush"
  /\ LET t == Head(pending)
     IN /\ store' = [store EXCEPT ![BufferKey(t.user, t.topic)] = lTrimLast(@, BUFFER_MAX_LENGTH)]
        /\ pending' = Append(Tail(pending), [t EXCEPT !.kind = "lTrim"])
  /\ UNCHANGED <<conn, clientsByUserId, ttl, cache, tasks, sent, now, count>>

\* bufferMessage after lTrim resolved: expire; the lLen that follows is only
\* logged
BufferExpire ==
  /\ pending # <<>> /\ Head(pending).kind = "lTrim"
  /\ LET t == Head(pending)
     IN ttl' = expire(ttl, store, BufferKey(t.user, t.topic), BUFFER_EXPIRY_SECONDS, now)
  /\ pending' = Tail(pending)
  /\ UNCHANGED <<conn, clientsByUserId, store, cache, tasks, sent, now, count>>

\* bufferMessage when the command after rPush (lTrim) or after lTrim (expire)
\* is rejected: the catch block logs the error, the rest is skipped
bufferMessageCatch ==
  /\ pending # <<>> /\ Head(pending).kind \in {"rPush", "lTrim"}
  /\ count.rejects < limit.rejects
  /\ count' = [count EXCEPT !.rejects = @ + 1]
  /\ pending' = Tail(pending)
  /\ UNCHANGED <<conn, clientsByUserId, store, ttl, cache, tasks, sent, now>>

\* the forEach of sendToUser with a subscription test
DirectClients_subscribedOnly(u) ==
  {c \in RegGet(clientsByUserId, u) :
     /\ conn[c].userId = u /\ ~conn[c].isAuthenticating /\ conn[c].readyState = "OPEN"
     /\ conn[c].subscribedTopics # {}}

\* sendToUser
DirectClients(u) ==
  {c \in RegGet(clientsByUserId, u) :
     conn[c].userId = u /\ ~conn[c].isAuthenticating /\ conn[c].readyState = "OPEN"}

sendToUser(u) ==
  /\ count.sends < limit.sends
  /\ count' = [count EXCEPT !.sends = @ + 1]
  /\ sent' = [c \in Conns |->
               IF c \in Receivers(DirectClients(u))
                 THEN Append(sent[c], Delivered(EventData(count.sends + 1, now), "direct", u, <<>>))
                 ELSE sent[c]]
  /\ UNCHANGED <<conn, clientsByUserId, store, ttl, cache, tasks, pending, now>>

\* a broadcast to every open client
BroadcastClients_allOpen == {c \in Conns : conn[c].readyState = "OPEN"}

\* broadcast over wss.clients
BroadcastClients ==
  {c \in Conns :
     conn[c].userId # NoUser /\ ~conn[c].isAuthenticating /\ conn[c].readyState = "OPEN"}

broadcast ==
  /\ count.sends < limit.sends
  /\ count' = [count EXCEPT !.sends = @ + 1]
  /\ sent' = [c \in Conns |->
               IF c \in Receivers(BroadcastClients)
                 THEN Append(sent[c], Delivered(EventData(count.sends + 1, now), "broadcast", NoUser, <<>>))
                 ELSE sent[c]]
  /\ UNCHANGED <<conn, clientsByUserId, store, ttl, cache, tasks, pending, now>>

\* ------------------------------------------- authenticated client messages
\* a confirmation that lists the confirmed topic only
ConfirmFrame_topicOnly(type, topic, subs, n) ==
  [type |-> type, topic |-> topic, activeSubscriptions |-> {topic},
   bufferedMessageCount |-> n]

ConfirmFrame(type, topic, subs, n) ==
  [type |-> type, topic |-> topic, activeSubscriptions |-> subs,
   bufferedMessageCount |-> n]

\* a delete that empties the set
topicsDelete_clear(subs, topic) == {}

\* ws.subscribedTopics.delete(topic)
topicsDelete(subs, topic) == subs \ {topic}

\* a reply that never names the type
messageType_unknown(data) == "unknown"

\* (parsedData)?.type ?? 'unknown'
messageType(data) == IF data.isObject /\ data.type # "" THEN data.type ELSE "unknown"

\* {type: 'error', message: `Unknown message type: ${messageType}`}
ErrorFrame(type) == [type |-> "error", messageType |-> type]

\* handleAuthenticatedMessage; handleSubscribe runs up to its await of lLen
handleAuthenticatedMessage(c, data) ==
  /\ conn[c].readyState \in {"OPEN", "CLOSING"}
  /\ ~conn[c].isAuthenticating
  /\ count.msgs < limit.msgs
  /\ count' = [count EXCEPT !.msgs = @ + 1]
  /\ IF conn[c].userId = NoUser
       THEN /\ conn' = wsClose(conn, c, MISSING_USER_CODE)
            /\ UNCHANGED <<pending, sent>>
     ELSE IF isSubscribeMessage(data)
       THEN /\ conn' = [conn EXCEPT ![c].subscribedTopics = @ \cup {data.topic}]
            /\ pending' = Append(pending,
                 RedisTask("lLen", c, conn[c].userId, data.topic,
                           Len(store[BufferKey(conn[c].userId, data.topic)]), <<>>,
                           store[BufferKey(conn[c].userId, data.topic)], Len(sent[c])))
            /\ sent' = sent
     ELSE IF isUnsubscribeMessage(data)
       THEN /\ conn' = [conn EXCEPT ![c].subscribedTopics = topicsDelete(@, data.topic)]
            /\ sent' = wsSend(sent, conn, c,
                 <<ConfirmFrame("unsubscription_confirmed", data.topic,
                                topicsDelete(conn[c].subscribedTopics, data.topic), 0)>>)
            /\ pending' = pending
     ELSE IF isPingMessage(data)
       THEN /\ sent' = wsSend(sent, conn, c, <<[type |-> "pong"]>>)
            /\ UNCHANGED <<conn, pending>>
     ELSE /\ sent' = wsSend(sent, conn, c, <<ErrorFrame(messageType(data))>>)
          /\ UNCHANGED <<conn, pending>>
  /\ UNCHANGED <<clientsByUserId, store, ttl, cache, tasks, now>>

\* handleSubscribe after lLen resolved: confirmation, then sendBufferedMessages
\* up to its await of lRange
handleSubscribe ==
  /\ pending # <<>> /\ Head(pending).kind = "lLen"
  /\ LET t == Head(pending)
     IN /\ sent' = wsSend(sent, conn, t.c,
             <<ConfirmFrame("subscription_confirmed", t.topic,
                            conn[t.c].subscribedTopics, t.n)>>)
        /\ IF t.n > 0 /\ conn[t.c].userId # NoUser
             THEN pending' = Append(Tail(pending),
                    RedisTask("lRange", t.c, conn[t.c].userId, t.topic, t.n,
                              store[BufferKey(conn[t.c].userId, t.topic)], t.held, t.mark))
             ELSE pending' = Tail(pending)
  /\ UNCHANGED <<conn, clientsByUserId, store, ttl, cache, tasks, now, count>>

\* sendBufferedMessages after lRange resolved: parse loop, send loop, del
sendBufferedMessages ==
  /\ pending # <<>> /\ Head(pending).kind = "lRange"
  /\ pending' = Tail(pending)
  /\ LET t == Head(pending)
         messages == t.messages
         toSend == messagesToSend(messages, now)
         frames == [i \in 1..Len(toSend) |-> Delivered(toSend[i], "replay", t.user, t.topic)]
     IN IF Len(messages) = 0
          THEN UNCHANGED <<sent, store, ttl>>
          ELSE /\ sent' = wsSend(sent, conn, t.c, frames)
               /\ IF Len(toSend) > 0 \/ discardedCount(messages, now) > 0
                    THEN /\ store' = del(store, BufferKey(t.user, t.topic))
                         /\ ttl' = [ttl EXCEPT ![BufferKey(t.user, t.topic)] = NoExpiry]
                    ELSE UNCHANGED <<store, ttl>>
  /\ UNCHANGED <<conn, clientsByUserId, cache, tasks, now, count>>

\* a catch block that clears the buffer after a failed read
sendBufferedMessagesCatch_clears ==
  /\ pending # <<>> /\ Head(pending).kind = "lRange"
  /\ count.faults < limit.faults
  /\ count' = [count EXCEPT !.faults = @ + 1]
  /\ pending' = Tail(pending)
  /\ store' = del(store, BufferKey(Head(pending).user, Head(pending).topic))
  /\ UNCHANGED <<conn, clientsByUserId, ttl, cache, tasks, sent, now>>

\* sendBufferedMessages when lRange rejected: the catch block logs the error
sendBufferedMessagesCatch ==
  /\ pending # <<>> /\ Head(pending).kind = "lRange"
  /\ count.faults < limit.faults
  /\ count' = [count EXCEPT !.faults = @ + 1]
  /\ pending' = Tail(pending)
  /\ UNCHANGED <<conn, clientsByUserId, store, ttl, cache, tasks, sent, now>>

\* ------------------------------------------------- liveness and shutdown
\* WebSocketManager.initialize: server up, both intervals started
Initialized ==
  [wss |-> "RUNNING", pingInterval |-> TRUE, cleanupInterval |-> TRUE,
   messageBuffer |-> <<>>]

WelcomeFrame == [type |-> "connected"]
PingProbe == [type |-> "ping"]

\* handleUpgrade and the 'connection' handler: the client is bound to userId,
\* marked alive, indexed and welcomed; a server that was closed admits nothing
handleUpgrade(c, u) ==
  /\ manager.wss = "RUNNING"
  /\ conn[c].readyState = "NONE"
  /\ \A d \in Conns : d < c => conn[d].readyState # "NONE"
  /\ conn' = [conn EXCEPT ![c] = [FreshConn EXCEPT !.readyState = "OPEN",
                                    !.isAuthenticating = FALSE, !.userId = u,
                                    !.isAlive = TRUE, !.admittedAt = now]]
  /\ clientsByUserId' = [clientsByUserId EXCEPT ![u] =
                           [has |-> TRUE, set |-> RegGet(clientsByUserId, u) \cup {c}]]
  /\ sent' = [sent EXCEPT ![c] = <<WelcomeFrame>>]
  /\ UNCHANGED <<store, ttl, cache, tasks, pending, now, manager, count>>

\* ws.on('pong'): the probe was answered
Pong(c) ==
  /\ conn[c].readyState = "OPEN"
  /\ ~conn[c].isAlive
  /\ conn' = [conn EXCEPT ![c].isAlive = TRUE]
  /\ UNCHANGED <<clientsByUserId, store, ttl, cache, tasks, pending, sent, now, manager, count>>

\* client.terminate(): the socket is destroyed, 'close' follows
terminate(w) ==
  IF w.readyState \in {"OPEN", "CLOSING"}
    THEN [w EXCEPT !.readyState = "CLOSING", !.terminated = TRUE]
    ELSE w

\* the server's client set: sockets that did not emit 'close' yet
Tracked(w) == w.readyState \in {"OPEN", "CLOSING"}

\* a tick that marks and probes but never terminates
beat_probeOnly(w) == IF Tracked(w) THEN [w EXCEPT !.isAlive = FALSE] ELSE w

\* the body of the ping interval for one client
beat(w) ==
  IF ~Tracked(w) THEN w
  ELSE IF ~w.isAlive THEN terminate(w)
  ELSE [w EXCEPT !.isAlive = FALSE]

\* the ping interval fires; client.ping() reaches the peer of an open socket
Heartbeat ==
  /\ manager.pingInterval
  /\ count.ticks < limit.ticks
  /\ count' = [count EXCEPT !.ticks = @ + 1]
  /\ conn' = [c \in Conns |-> beat(conn[c])]
  /\ sent' = [c \in Conns |->
               IF Tracked(conn[c]) /\ conn[c].isAlive /\ conn[c].readyState = "OPEN"
                 THEN Append(sent[c], PingProbe) ELSE sent[c]]
  /\ UNCHANGED <<clientsByUserId, store, ttl, cache, tasks, pending, now, manager>>

\* messageBuffer.filter(msg => (now - msg.timestamp) < messageExpiry)
RECURSIVE unexpired(_, _)
unexpired(buf, t) ==
  IF buf = <<>> THEN <<>>
  ELSE IF (t - Head(buf).timestamp) < MESSAGE_EXPIRY_MS
    THEN <<Head(buf)>> \o unexpired(Tail(buf), t)
    ELSE unexpired(Tail(buf), t)

\* the buffer cleanup interval fires
BufferCleanup ==
  /\ manager.cleanupInterval
  /\ count.sweeps < limit.sweeps
  /\ count' = [count EXCEPT !.sweeps = @ + 1]
  /\ manager' = [manager EXCEPT !.messageBuffer = unexpired(@, now)]
  /\ UNCHANGED <<conn, clientsByUserId, store, ttl, cache, tasks, pending, sent, now>>

\* shutdown(): clearInterval(pingInterval), wss.close(); whether closing the
\* server also terminates its clients depends on the ws release
shutdown ==
  /\ manager.wss = "RUNNING"
  /\ manager' = [manager EXCEPT !.pingInterval = FALSE, !.wss = "CLOSED"]
  /\ \E drops \in BOOLEAN :
       conn' = IF drops THEN [c \in Conns |-> terminate(conn[c])] ELSE conn
  /\ UNCHANGED <<clientsByUserId, store, ttl, cache, tasks, pending, sent, now, count>>

\* ------------------------------------------------------- specifications
Handshake ==
  \/ \E c \in Conns : Admit(c)
  \/ \E c \in Conns : AuthTimeout(c)
  \/ \E c \in Conns, data \in HandshakeFrames : RecvUnauthenticated(c, data)
  \/ \E t \in tasks : AuthCacheReply(t)
  \/ \E t \in tasks, v \in UNION {verifyAppleToken(tok) : tok \in Tokens} : AuthVerifyReply(t, v)
  \/ \E tok \in Tokens : CacheExpire(tok)

Transport ==
  \/ \E c \in Conns : PeerClosing(c)
  \/ \E c \in Conns : CloseEvent(c)

Session(frames) ==
  \/ \E c \in Conns, data \in frames : handleAuthenticatedMessage(c, data)
  \/ handleSubscribe
  \/ sendBufferedMessages

Publishing(ids) ==
  \/ \E u \in ids, topic \in Topics : sendToSubscribedClients(u, topic)
  \/ BufferTrim
  \/ BufferExpire

NextHandshake ==
  /\ \/ Handshake
     \/ Transport
     \/ Advance(AUTH_TIMEOUT_MS)
  /\ UNCHANGED <<limit, manager>>

\* admission, handshake and close from an empty server
SpecHandshake == Init /\ [][NextHandshake]_vars

\* a connection that completed the handshake: bound to u, no timer
Authenticated(u) ==
  [FreshConn EXCEPT !.readyState = "OPEN", !.isAuthenticating = FALSE,
                    !.userId = u, !.admittedAt = StartTime, !.gotMessage = TRUE]

\* connections bound as owner says, indexed and welcomed; nothing buffered
Established(owner, lim) ==
  /\ conn = [c \in Conns |-> Authenticated(owner[c])]
  /\ clientsByUserId = [u \in AllIds |->
       IF \E c \in Conns : owner[c] = u
         THEN [has |-> TRUE, set |-> {c \in Conns : owner[c] = u}]
         ELSE NoEntry]
  /\ sent = [c \in Conns |-> <<AuthSuccessFrame(owner[c]), ConnectedFrame(owner[c])>>]
  /\ store = [k \in KeySpace |-> <<>>]
  /\ ttl = [k \in KeySpace |-> NoExpiry]
  /\ cache = [tok \in TokenStrings |-> NoCached]
  /\ tasks = {}
  /\ manager = NoManager
  /\ pending = <<>>
  /\ now = StartTime
  /\ count = NoCounts
  /\ limit = lim

InitFanout ==
  \E owner \in [Conns -> Identities] :
    /\ owner[1] = ApplePrefix(<<"u1">>)
    /\ Established(owner, NoOutage([msgs |-> MaxFrames, pubs |-> MaxPublish, sends |-> 0,
                           advances |-> 0, closes |-> MaxCloses, faults |-> 0]))

NextFanout ==
  /\ \/ Transport
     \/ Session(SessionFrames)
     \/ Publishing(Identities)
  /\ UNCHANGED <<limit, manager>>

\* fan-out and buffering among authenticated connections
Spec == InitFanout /\ [][NextFanout]_vars

InitReplay ==
  Established([c \in Conns |-> ApplePrefix(<<"u1">>)],
              NoOutage([msgs |-> MaxReplayFrames, pubs |-> MaxReplayPublish, sends |-> 0,
               advances |-> MaxReplayAdvance, closes |-> MaxCloses,
               faults |-> MaxReplayFaults]))

NextReplay ==
  /\ \/ Transport
     \/ Advance(MESSAGE_EXPIRY_MS)
     \/ Session({SubscribeFrame(<<"t1">>)})
     \/ sendBufferedMessagesCatch
     \/ Publishing({ApplePrefix(<<"u1">>)})
  /\ UNCHANGED <<limit, manager>>

\* buffering and replay as time passes
SpecReplay == InitReplay /\ [][NextReplay]_vars

\* a connection admitted at StartTime that has not sent a frame yet
Awaiting ==
  [FreshConn EXCEPT !.readyState = "OPEN", !.authTimer = StartTime + AUTH_TIMEOUT_MS,
                    !.admittedAt = StartTime]

\* the confirmations a connection got while it subscribed to subs, t1 first
SubscribedLog(subs) ==
  (IF <<"t1">> \in subs
     THEN <<ConfirmFrame("subscription_confirmed", <<"t1">>, {<<"t1">>}, 0)>> ELSE <<>>)
  \o (IF <<"t2">> \in subs
        THEN <<ConfirmFrame("subscription_confirmed", <<"t2">>, subs, 0)>> ELSE <<>>)

\* connections that are authenticated and subscribed, or still awaiting their
\* credential; on some sockets send throws; nothing buffered
InitDelivery ==
  \E owner \in [Conns -> Identities \cup {NoUser}],
     subs \in [Conns -> SUBSET Topics], fails \in [Conns -> BOOLEAN] :
    /\ owner[1] = ApplePrefix(<<"u1">>)
    /\ \A c \in Conns : owner[c] = NoUser => (subs[c] = {} /\ ~fails[c])
    /\ conn = [c \in Conns |->
         IF owner[c] = NoUser THEN Awaiting
         ELSE [Authenticated(owner[c]) EXCEPT !.subscribedTopics = subs[c],
                                              !.sendFails = fails[c]]]
    /\ clientsByUserId = [u \in AllIds |->
         IF \E c \in Conns : owner[c] = u
           THEN [has |-> TRUE, set |-> {c \in Conns : owner[c] = u}]
           ELSE NoEntry]
    /\ sent = [c \in Conns |->
         IF owner[c] = NoUser THEN <<>>
         ELSE <<AuthSuccessFrame(owner[c]), ConnectedFrame(owner[c])>>
                \o SubscribedLog(subs[c])]
    /\ store = [k \in KeySpace |-> <<>>]
    /\ ttl = [k \in KeySpace |-> NoExpiry]
    /\ cache = [tok \in TokenStrings |-> NoCached]
    /\ tasks = {}
    /\ manager = NoManager
    /\ pending = <<>>
    /\ now = StartTime
    /\ count = NoCounts
    /\ limit = NoOutage([msgs |-> 0, pubs |-> MaxDeliveryPublish, sends |-> MaxDeliverySends,
                advances |-> 0, closes |-> MaxCloses, faults |-> 0])

Direct ==
  \/ \E u \in Identities : sendToUser(u)
  \/ broadcast

NextDelivery ==
  /\ \/ Transport
     \/ Publishing(Identities)
     \/ Direct
  /\ UNCHANGED <<limit, manager>>

\* publish, direct send and broadcast among connections some of which throw
SpecDelivery == InitDelivery /\ [][NextDelivery]_vars

\* authenticated connections holding some topics, each confirmed; nothing
\* buffered
Subscribed(lim) ==
  \E owner \in [Conns -> Identities], subs \in [Conns -> SUBSET Topics] :
    /\ owner[1] = ApplePrefix(<<"u1">>)
    /\ conn = [c \in Conns |->
         [Authenticated(owner[c]) EXCEPT !.subscribedTopics = subs[c]]]
    /\ clientsByUserId = [u \in AllIds |->
         IF \E c \in Conns : owner[c] = u
           THEN [has |-> TRUE, set |-> {c \in Conns : owner[c] = u}]
           ELSE NoEntry]
    /\ sent = [c \in Conns |->
         <<AuthSuccessFrame(owner[c]), ConnectedFrame(owner[c])>> \o SubscribedLog(subs[c])]
    /\ store = [k \in KeySpace |-> <<>>]
    /\ ttl = [k \in KeySpace |-> NoExpiry]
    /\ cache = [tok \in TokenStrings |-> NoCached]
    /\ tasks = {}
    /\ manager = NoManager
    /\ pending = <<>>
    /\ now = StartTime
    /\ count = NoCounts
    /\ limit = lim

InitSession ==
  Subscribed(NoOutage([msgs |-> MaxSessionFrames, pubs |-> MaxSessionPublish, sends |-> 0,
                       advances |-> 0, closes |-> MaxCloses, faults |-> 0]))

NextSession ==
  /\ \/ Transport
     \/ Session(SessionInputs)
     \/ Publishing({ApplePrefix(<<"u1">>)})
  /\ UNCHANGED <<limit, manager>>

\* every frame a client can send on an authenticated connection
SpecSession == InitSession /\ [][NextSession]_vars

\* the manager right after initialize(): no connection yet
InitLiveness ==
  /\ conn = [c \in Conns |-> FreshConn]
  /\ clientsByUserId = [u \in AllIds |-> NoEntry]
  /\ store = [k \in KeySpace |-> <<>>]
  /\ ttl = [k \in KeySpace |-> NoExpiry]
  /\ cache = [tok \in TokenStrings |-> NoCached]
  /\ tasks = {}
  /\ manager = Initialized
  /\ pending = <<>>
  /\ sent = [c \in Conns |-> <<>>]
  /\ now = StartTime
  /\ count = NoCounts
  /\ limit = [msgs |-> 0, pubs |-> 0, sends |-> 0, advances |-> 0, closes |-> MaxCloses,
              faults |-> 0, rejects |-> 0, ticks |-> MaxTicks, sweeps |-> MaxSweeps]

NextLiveness ==
  /\ \/ \E c \in Conns, u \in Identities : handleUpgrade(c, u)
     \/ \E c \in Conns : Pong(c)
     \/ Heartbeat
     \/ BufferCleanup
     \/ shutdown
     \/ (Transport /\ UNCHANGED manager)
  /\ UNCHANGED limit

\* heartbeat, cleanup and shutdown of the manager
SpecLiveness == InitLiveness /\ [][NextLiveness]_vars

InitOutage ==
  Subscribed([msgs |-> 0, pubs |-> MaxOutagePublish, sends |-> 0, advances |-> 0,
              closes |-> MaxCloses, faults |-> 0, rejects |-> MaxOutageRejects,
              ticks |-> 0, sweeps |-> 0])

NextOutage ==
  /\ \/ Transport
     \/ Publishing({ApplePrefix(<<"u1">>)})
     \/ bufferMessageCatch
  /\ UNCHANGED <<limit, manager>>

\* publishing while the store rejects commands
SpecOutage == InitOutage /\ [][NextOutage]_vars

\* identities and topics as the store key sees them: the subject of the
\* second identity and the first topic hold a ':' of their own
KeyIdentities == {ApplePrefix(<<"u1">>), ApplePrefix(<<"u1", "conversation">>)}
KeyTopics == {<<"conversation", "42">>, <<"42">>}

\* authenticated connections of these identities, nothing subscribed, nothing
\* buffered
InitKeys ==
  \E owner \in [Conns -> KeyIdentities] :
    /\ conn = [c \in Conns |-> Authenticated(owner[c])]
    /\ clientsByUserId = [u \in KeyIdentities |->
         IF \E c \in Conns : owner[c] = u
           THEN [has |-> TRUE, set |-> {c \in Conns : owner[c] = u}]
           ELSE NoEntry]
    /\ sent = [c \in Conns |-> <<AuthSuccessFrame(owner[c]), ConnectedFrame(owner[c])>>]
    /\ store = [k \in {BufferKey(u, t) : u \in KeyIdentities, t \in KeyTopics} |-> <<>>]
    /\ ttl = [k \in {BufferKey(u, t) : u \in KeyIdentities, t \in KeyTopics} |-> NoExpiry]
    /\ cache = [tok \in TokenStrings |-> NoCached]
    /\ tasks = {}
    /\ manager = NoManager
    /\ pending = <<>>
    /\ now = StartTime
    /\ count = NoCounts
    /\ limit = NoOutage([msgs |-> MaxKeyFrames, pubs |-> MaxKeyPublish, sends |-> 0,
                         advances |-> 0, closes |-> MaxCloses, faults |-> 0])

\* the producer publishes to 'apple:u1' on 'conversation:42' only
NextKeys ==
  /\ \/ Transport
     \/ Session({SubscribeFrame(t) : t \in KeyTopics})
     \/ sendToSubscribedClients(ApplePrefix(<<"u1">>), <<"conversation", "42">>)
     \/ BufferTrim
     \/ BufferExpire
  /\ UNCHANGED <<limit, manager>>

\* subscribe and replay among identities and topics that hold the separator
SpecKeys == InitKeys /\ [][NextKeys]_vars

\* what a client sends first: a token, whose verification succeeds or fails,
\* or a frame that is no auth envelope
TerminationFrames == {AuthFrame(TokA), PingFrame}

\* an empty server whose clock can run until every armed timer has fired
InitTermination ==
  /\ conn = [c \in Conns |-> FreshConn]
  /\ clientsByUserId = [u \in AllIds |-> NoEntry]
  /\ store = [k \in KeySpace |-> <<>>]
  /\ ttl = [k \in KeySpace |-> NoExpiry]
  /\ cache = [tok \in TokenStrings |-> NoCached]
  /\ tasks = {}
  /\ manager = NoManager
  /\ pending = <<>>
  /\ sent = [c \in Conns |-> <<>>]
  /\ now = StartTime
  /\ count = NoCounts
  /\ limit = NoOutage([msgs |-> MaxTermFrames, pubs |-> 0, sends |-> 0,
                       advances |-> MaxConns, closes |-> MaxCloses, faults |-> 0])

\* time passes while an authentication timer is armed
TimerClock ==
  /\ \E c \in Conns : conn[c].authTimer # NoTimer
  /\ Advance(AUTH_TIMEOUT_MS)
  /\ UNCHANGED <<limit, manager>>

\* a timer that is due runs its callback
TimerFires == (\E c \in Conns : AuthTimeout(c)) /\ UNCHANGED <<limit, manager>>

\* an awaited call of performAuthentication settles and the handler resumes
AwaitSettles ==
  /\ \/ \E t \in tasks : AuthCacheReply(t)
     \/ \E t \in tasks, v \in UNION {verifyAppleToken(tok) : tok \in Tokens} :
          AuthVerifyReply(t, v)
  /\ UNCHANGED <<limit, manager>>

\* the closing handshake of a socket ends and 'close' is emitted
CloseCompletes ==
  /\ \E c \in Conns : conn[c].readyState = "CLOSING" /\ CloseEvent(c)
  /\ UNCHANGED <<limit, manager>>

NextTermination ==
  \/ (\E c \in Conns : Admit(c)) /\ UNCHANGED <<limit, manager>>
  \/ (\E c \in Conns, data \in TerminationFrames : RecvUnauthenticated(c, data))
       /\ UNCHANGED <<limit, manager>>
  \/ Transport /\ UNCHANGED <<limit, manager>>
  \/ TimerClock
  \/ TimerFires
  \/ AwaitSettles
  \/ CloseCompletes

\* the handshake under the event loop: a due timer, a settled await and the
\* end of a closing handshake are each handled eventually; what the peer
\* does (connect, send, close) is not forced
SpecTermination ==
  /\ InitTermination /\ [][NextTermination]_vars
  /\ WF_vars(TimerClock) /\ WF_vars(TimerFires)
  /\ WF_vars(AwaitSettles) /\ WF_vars(CloseCompletes)

\* an empty server; a producer publishes to one identity and topic
InitBuffer ==
  /\ conn = [c \in Conns |-> FreshConn]
  /\ clientsByUserId = [u \in AllIds |-> NoEntry]
  /\ store = [k \in KeySpace |-> <<>>]
  /\ ttl = [k \in KeySpace |-> NoExpiry]
  /\ cache = [tok \in TokenStrings |-> NoCached]
  /\ tasks = {}
  /\ manager = NoManager
  /\ pending = <<>>
  /\ sent = [c \in Conns |-> <<>>]
  /\ now = StartTime
  /\ count = NoCounts
  /\ limit = NoOutage([msgs |-> 0, pubs |-> MaxBufferPublish, sends |-> 0,
              advances |-> MaxBufferAdvance, closes |-> 0, faults |-> 0])

NextBuffer ==
  /\ \/ Len(pending) < MaxInFlight
          /\ sendToSubscribedClients(ApplePrefix(<<"u1">>), <<"t1">>)
     \/ BufferTrim
     \/ BufferExpire
     \/ Advance(MESSAGE_EXPIRY_MS)
  /\ UNCHANGED <<limit, manager>>

\* enqueue after enqueue on one key, past the length bound of the list
SpecBuffer == InitBuffer /\ [][NextBuffer]_vars

\* ------------------------------------------------------------ properties
\* the connections of identity u that are authenticated, open and subscribed
Eligible(u, topic) ==
  {c \in Conns : /\ conn[c].userId = u /\ ~conn[c].isAuthenticating
                 /\ conn[c].readyState = "OPEN"
                 /\ topic \in conn[c].subscribedTopics}

OpenOf(u) == {c \in Conns : conn[c].userId = u /\ conn[c].readyState = "OPEN"}

\* the step appended exactly one entry, the event just published, to the key
\* of (u, topic) and touched no other key
AppendedOnce(u, topic) ==
  /\ Len(store'[BufferKey(u, topic)]) = Len(store[BufferKey(u, topic)]) + 1
  /\ SubSeq(store'[BufferKey(u, topic)], 1, Len(store[BufferKey(u, topic)]))
       = store[BufferKey(u, topic)]
  /\ store'[BufferKey(u, topic)][Len(store'[BufferKey(u, topic)])].data.id = count'.pubs
  /\ \A k \in KeySpace \ {BufferKey(u, topic)} : store'[k] = store[k]

PublishFrames(c) == {i \in 1..Len(sent[c]) : sent[c][i].type = "event" /\ sent[c][i].via = "publish"}

\* C1: a publish to an identity none of whose connections is open appends
\* exactly one entry under the key of (identity, topic) and sends nothing
C1_OfflinePublishBuffersOnce ==
  [][\A u \in Identities, topic \in Topics :
       (sendToSubscribedClients(u, topic) /\ OpenOf(u) = {})
         => (AppendedOnce(u, topic) /\ sent' = sent)]_vars

\* the only connection of an identity is closing but still indexed; it holds
\* the topic, no replay is in flight, and an event for it is in the buffer
W1_OfflinePublish ==
  \E u \in Identities, topic \in Topics, c \in Conns :
    /\ conn[c].userId = u /\ conn[c].readyState = "CLOSING" /\ OpenOf(u) = {}
    /\ c \in clientsByUserId[u].set
    /\ topic \in conn[c].subscribedTopics
    /\ \A i \in 1..Len(pending) : pending[i].kind \in {"rPush", "lTrim"}
    /\ store[BufferKey(u, topic)] # <<>>

\* C2: with at least one authenticated, open, subscribed connection, a
\* publish reaches each of them exactly once, no other connection, and
\* writes nothing to the store
C2_LivePublishDeliversOnly ==
  [][\A u \in Identities, topic \in Topics :
       (sendToSubscribedClients(u, topic) /\ Eligible(u, topic) # {})
         => /\ \A c \in Conns :
                 sent'[c] = IF c \in Eligible(u, topic)
                              THEN Append(sent[c],
                                     [type |-> "event", id |-> count'.pubs, timestamp |-> now,
                                      via |-> "publish", user |-> u, topic |-> topic])
                              ELSE sent[c]
            /\ store' = store
            /\ pending' = pending]_vars

\* two connections of one identity got the same event live, a third party
\* did not, and nothing is stored
W2_LivePublish ==
  \E c, d \in Conns :
    /\ c # d /\ conn[c].userId = conn[d].userId
    /\ \E i \in PublishFrames(c), j \in PublishFrames(d) : sent[c][i].id = sent[d][j].id
    /\ \A k \in KeySpace : store[k] = <<>>

\* C3: a publish to an identity whose open connections are all unsubscribed
\* from the topic sends nothing and appends the payload once, as without any
\* connection
C3_UnsubscribedPublishBuffers ==
  [][\A u \in Identities, topic \in Topics :
       (/\ sendToSubscribedClients(u, topic)
        /\ OpenOf(u) # {}
        /\ \A c \in OpenOf(u) : topic \notin conn[c].subscribedTopics)
         => (sent' = sent /\ AppendedOnce(u, topic))]_vars

\* an open connection subscribed to another topic only, an entry buffered
\* for its identity, and no live frame on the connection
W3_UnsubscribedPublish ==
  \E c \in Conns, topic \in Topics :
    /\ conn[c].readyState = "OPEN" /\ conn[c].userId # NoUser
    /\ conn[c].subscribedTopics # {} /\ topic \notin conn[c].subscribedTopics
    /\ store[BufferKey(conn[c].userId, topic)] # <<>>
    /\ PublishFrames(c) = {}
    /\ \A d \in Conns : d # c => conn[d].userId # conn[c].userId

\* C4: a publish sends an event of a topic only to connections that hold the
\* topic in their own subscription set and are bound to the published identity
C4_FanoutWithinSubscription ==
  [][\A u \in Identities, topic \in Topics :
       sendToSubscribedClients(u, topic)
         => \A c \in Conns :
              sent'[c] # sent[c]
                => (topic \in conn[c].subscribedTopics /\ conn[c].userId = u)]_vars

\* one connection got a live event of a topic while an open connection of
\* another identity, subscribed to the same topic, got none
W4_FanoutSelective ==
  \E c, d \in Conns :
    /\ conn[c].userId # conn[d].userId
    /\ conn[d].readyState = "OPEN"
    /\ \E i \in PublishFrames(c) : sent[c][i].topic \in conn[d].subscribedTopics
    /\ PublishFrames(d) = {}

\* the ids of the replayed events among the frames a connection was sent
\* after the first mark frames, in the order they were sent
ReplayIds(log, mark) ==
  LET later == SubSeq(log, mark + 1, Len(log))
      events == SelectSeq(later, LAMBDA f : f.type = "event" /\ f.via = "replay")
  IN [i \in 1..Len(events) |-> events[i].id]

\* the ids of the events of buffer entries, in list order
EntryIds(list) == [i \in 1..Len(list) |-> list[i].data.id]

RECURSIVE IsSubsequence(_, _)
IsSubsequence(s, t) ==
  IF s = <<>> THEN TRUE
  ELSE IF t = <<>> THEN FALSE
  ELSE IF Head(s) = Head(t) THEN IsSubsequence(Tail(s), Tail(t))
  ELSE IsSubsequence(s, Tail(t))

WithinWindow(list) ==
  \A i \in 1..Len(list) : list[i].timestamp # 0 /\ (now - list[i].timestamp) < MESSAGE_EXPIRY_MS

\* C5 as stated: when the replay started by a subscribe frame completes on a
\* connection that is open, and the key held N entries when the frame was
\* handled, all still within the window, then the connection has been sent
\* all N since the frame, in enqueue order, and the key is absent
C5_Original_ReplayOfHeldEntries ==
  [][(/\ sendBufferedMessages
      /\ conn[Head(pending).c].readyState = "OPEN"
      /\ Head(pending).held # <<>>
      /\ WithinWindow(Head(pending).held))
       => /\ IsSubsequence(EntryIds(Head(pending).held),
                           ReplayIds(sent'[Head(pending).c], Head(pending).mark))
          /\ store'[BufferKey(Head(pending).user, Head(pending).topic)] = <<>>]_vars

\* C5: when a replay on an open connection read N >= 1 entries from the key,
\* all within the window, exactly those N are sent to the connection in
\* enqueue order by that step and the key is absent afterwards
C5_ReplayOfReadEntries ==
  [][(/\ sendBufferedMessages
      /\ conn[Head(pending).c].readyState = "OPEN"
      /\ Head(pending).messages # <<>>
      /\ WithinWindow(Head(pending).messages))
       => /\ Len(sent'[Head(pending).c])
               = Len(sent[Head(pending).c]) + Len(Head(pending).messages)
          /\ SubSeq(sent'[Head(pending).c], 1, Len(sent[Head(pending).c]))
               = sent[Head(pending).c]
          /\ ReplayIds(sent'[Head(pending).c], Len(sent[Head(pending).c]))
               = EntryIds(Head(pending).messages)
          /\ \A d \in Conns \ {Head(pending).c} : sent'[d] = sent[d]
          /\ store'[BufferKey(Head(pending).user, Head(pending).topic)] = <<>>]_vars

\* an open connection was replayed the two buffered events, oldest first,
\* and the key is gone
W5_ReplayedInOrder ==
  \E c \in Conns :
    /\ conn[c].readyState = "OPEN"
    /\ ReplayIds(sent[c], 0) = <<1, 2>>
    /\ store[BufferKey(conn[c].userId, <<"t1">>)] = <<>>
    /\ pending = <<>>

\* the frames a client can send that are not a valid auth envelope
InvalidAuthFrames ==
  {data \in HandshakeFrames :
     ~(data.isObject /\ data.type = "auth" /\ data.tokenIsString /\ data.token # <<>>)}

\* C6: a frame that is not a valid auth envelope, received on an open
\* unauthenticated connection, closes it with 4002 in the step that handles
\* the frame; no handler is left suspended, the verifier is not called, and
\* the registry and the verification cache are unchanged
C6_InvalidFrameClosesAtOnce ==
  [][\A c \in Conns, data \in InvalidAuthFrames :
       (RecvUnauthenticated(c, data) /\ conn[c].readyState = "OPEN")
         => /\ conn'[c].readyState = "CLOSING"
            /\ conn'[c].closeCode = 4002
            /\ tasks' = tasks
            /\ clientsByUserId' = clientsByUserId
            /\ cache' = cache
            /\ sent' = sent]_vars

\* a connection was closed with 4002 on its first frame: nothing suspended,
\* nothing indexed, nothing cached
W6_InvalidFrameClosed ==
  \E c \in Conns :
    /\ conn[c].closeCode = 4002 /\ conn[c].gotMessage
    /\ conn[c].readyState = "CLOSING"
    /\ tasks = {}
    /\ \A u \in AllIds : ~clientsByUserId[u].has
    /\ \A tok \in Tokens : ~cache[tok].has

\* C7: an open connection none of whose frames was handled is never found
\* past its authentication deadline, and the timer closing it gives it a code
\* of its own, neither 4001 nor 4002
C7_TimeoutClosesWithOwnCode ==
  [][/\ \A c \in Conns :
          (conn'[c].readyState = "OPEN" /\ ~conn'[c].gotMessage)
            => now' <= conn'[c].admittedAt + AUTH_TIMEOUT_MS
     /\ \A c \in Conns :
          (AuthTimeout(c) /\ conn[c].readyState = "OPEN")
            => /\ ~conn[c].gotMessage
               /\ now >= conn[c].admittedAt + AUTH_TIMEOUT_MS
               /\ conn'[c].readyState = "CLOSING"
               /\ conn'[c].closeCode \notin {0, 4001, 4002}]_vars

\* a connection that was sent nothing and sent no frame is closing at its
\* deadline with a code other than 4001 and 4002
W7_TimedOut ==
  \E c \in Conns :
    /\ conn[c].readyState = "CLOSING" /\ ~conn[c].gotMessage
    /\ conn[c].closeCode \notin {0, 4001, 4002}
    /\ now = conn[c].admittedAt + AUTH_TIMEOUT_MS
    /\ sent[c] = <<>>

\* the continuation of handleAuthMessage runs for task t with a success
VerificationSucceeds(t) ==
  \/ AuthCacheReply(t) /\ t.stage = "cache" /\ t.cached.has /\ t.cached.res.success
  \/ \E v \in verifyAppleToken(t.token) : AuthVerifyReply(t, v) /\ v.success

\* C8 as stated: when verification of a token succeeds on an open connection,
\* the connection is bound to 'apple:' + subject, indexed under that identity,
\* and sent auth_success with that identity and then connected; the first
\* frame it ever got is an auth_success
C8_Original_SuccessBindsNamespaced ==
  [][\A t \in tasks :
       (VerificationSucceeds(t) /\ conn[t.c].readyState = "OPEN")
         => /\ conn'[t.c].userId = <<"apple">> \o SubjectOf(t.token)
            /\ ~conn'[t.c].isAuthenticating
            /\ clientsByUserId'[<<"apple">> \o SubjectOf(t.token)].has
            /\ t.c \in clientsByUserId'[<<"apple">> \o SubjectOf(t.token)].set
            /\ sent'[t.c] = sent[t.c] \o
                 <<[type |-> "auth_success", userId |-> <<"apple">> \o SubjectOf(t.token)],
                   [type |-> "connected", userId |-> <<"apple">> \o SubjectOf(t.token)]>>
            /\ sent'[t.c][1].type = "auth_success"]_vars

\* C9 as stated: a connection closed with 4001 is not bound to an identity,
\* is in no set of the registry, and was sent no auth_success and no event
C9_Original_AuthFailedIsTerminal ==
  \A c \in Conns :
    conn[c].closeCode = 4001
      => /\ conn[c].userId = NoUser
         /\ \A u \in AllIds : c \notin RegGet(clientsByUserId, u)
         /\ \A i \in 1..Len(sent[c]) : sent[c][i].type \notin {"auth_success", "event"}

\* C10 as stated: the registry holds no connection whose close was handled
C10_Original_NoClosedConnectionIndexed ==
  \A c \in Conns :
    conn[c].readyState = "CLOSED"
      => \A u \in AllIds : c \notin RegGet(clientsByUserId, u)

\* the auth_success frames a connection was sent
AuthSuccessFrames(c) == {i \in 1..Len(sent[c]) : sent[c][i].type = "auth_success"}

\* C11 as stated: a connection is indexed under at most one identity, the one
\* it is bound to, and is sent at most one auth_success
C11_Original_AuthenticatedAtMostOnce ==
  \A c \in Conns :
    /\ \A u \in AllIds : c \in RegGet(clientsByUserId, u) => conn[c].userId = u
    /\ Cardinality(AuthSuccessFrames(c)) <= 1

\* the frames of a route that a connection was sent
RouteFrames(c, via) ==
  {i \in 1..Len(sent[c]) : sent[c][i].type = "event" /\ sent[c][i].via = via}

\* C12: a publish that finds matching connections, on each of which the send
\* throws, reaches nobody and appends the payload once to the buffer of
\* (identity, topic)
C12_AllSendsFailBuffersOnce ==
  [][\A u \in Identities, topic \in Topics :
       (/\ sendToSubscribedClients(u, topic)
        /\ Eligible(u, topic) # {}
        /\ \A c \in Eligible(u, topic) : conn[c].sendFails)
         => (sent' = sent /\ AppendedOnce(u, topic))]_vars

\* every matching connection of an identity throws on send, none got a live
\* event, and the event is in the buffer
W12_AllSendsFailed ==
  \E u \in Identities, topic \in Topics :
    /\ Eligible(u, topic) # {}
    /\ \A c \in Eligible(u, topic) : conn[c].sendFails /\ PublishFrames(c) = {}
    /\ Len(store[BufferKey(u, topic)]) = 1

\* C13: when the send throws on some matching connections and not on others,
\* the others each get the payload once, the throwing ones get nothing, and
\* nothing is buffered
C13_ThrowDoesNotAbortDelivery ==
  [][\A u \in Identities, topic \in Topics :
       (/\ sendToSubscribedClients(u, topic)
        /\ \E c \in Eligible(u, topic) : conn[c].sendFails
        /\ \E c \in Eligible(u, topic) : ~conn[c].sendFails)
         => /\ \A c \in Conns :
                 sent'[c] = IF c \in Eligible(u, topic) /\ ~conn[c].sendFails
                              THEN Append(sent[c],
                                     [type |-> "event", id |-> count'.pubs, timestamp |-> now,
                                      via |-> "publish", user |-> u, topic |-> topic])
                              ELSE sent[c]
            /\ store' = store
            /\ pending' = pending]_vars

\* of two matching connections of one identity the throwing one got nothing,
\* the other got the event, and nothing is stored
W13_OtherStillServed ==
  \E c, d \in Conns, topic \in Topics :
    /\ c # d /\ conn[c].userId = conn[d].userId
    /\ {c, d} \subseteq Eligible(conn[c].userId, topic)
    /\ conn[c].sendFails /\ PublishFrames(c) = {}
    /\ \E i \in PublishFrames(d) : sent[d][i].topic = topic
    /\ \A k \in KeySpace : store[k] = <<>>

\* C14: a direct send reaches every open, authenticated connection of the
\* identity on which the send does not throw, whatever it subscribed to,
\* reaches no other connection, and writes nothing to the store
C14_DirectSendNoBuffer ==
  [][\A u \in Identities :
       sendToUser(u)
         => /\ \A c \in Conns :
                 sent'[c] = IF /\ conn[c].userId = u /\ ~conn[c].isAuthenticating
                               /\ conn[c].readyState = "OPEN" /\ ~conn[c].sendFails
                              THEN Append(sent[c],
                                     [type |-> "event", id |-> count'.sends, timestamp |-> now,
                                      via |-> "direct", user |-> u, topic |-> <<>>])
                              ELSE sent[c]
            /\ store' = store
            /\ pending' = pending]_vars

\* a connection without any subscription got a direct event, an open
\* connection of another identity got none, and nothing is stored
W14_DirectToUnsubscribed ==
  \E c, d \in Conns :
    /\ conn[c].subscribedTopics = {} /\ RouteFrames(c, "direct") # {}
    /\ conn[d].readyState = "OPEN" /\ conn[d].userId \in Identities \ {conn[c].userId}
    /\ ~conn[d].sendFails /\ RouteFrames(d, "direct") = {}
    /\ \A k \in KeySpace : store[k] = <<>>

\* C15: a broadcast reaches every open, authenticated connection on which
\* the send does not throw and no connection that is unauthenticated or not
\* open; store, registry and the connections themselves are unchanged
C15_BroadcastAuthenticatedOnly ==
  [][broadcast
       => /\ \A c \in Conns :
               sent'[c] = IF /\ conn[c].userId # NoUser /\ ~conn[c].isAuthenticating
                             /\ conn[c].readyState = "OPEN" /\ ~conn[c].sendFails
                            THEN Append(sent[c],
                                   [type |-> "event", id |-> count'.sends, timestamp |-> now,
                                    via |-> "broadcast", user |-> NoUser, topic |-> <<>>])
                            ELSE sent[c]
          /\ store' = store /\ pending' = pending
          /\ clientsByUserId' = clientsByUserId
          /\ conn' = conn]_vars

\* an authenticated connection got the broadcast while an open connection
\* still awaiting its credential got nothing
W15_BroadcastSkipsUnauthenticated ==
  \E c, d \in Conns :
    /\ RouteFrames(c, "broadcast") # {}
    /\ conn[d].readyState = "OPEN" /\ conn[d].isAuthenticating /\ sent[d] = <<>>

\* C16: once every enqueue call on the key has completed, the list holds the
\* last min(n, 50) of the n entries enqueued, oldest first, and the key
\* expires one day after a moment between the last append and now
C16_BufferBoundedNewestKept ==
  LET k == <<"ws", "buffer", "apple", "u1", "t1">>
      n == count.pubs
      m == IF n < 50 THEN n ELSE 50
  IN (pending = <<>> /\ n > 0)
       => /\ Len(store[k]) = m
          /\ \A i \in 1..m : store[k][i].data.id = n - m + i
          /\ \A i \in 1..(m - 1) : store[k][i].timestamp <= store[k][i + 1].timestamp
          /\ ttl[k] - 86400000 >= store[k][m].timestamp
          /\ ttl[k] - 86400000 <= now

\* fifty-two enqueues completed: the list holds entries 3 to 52
W16_OldestEvicted ==
  /\ pending = <<>> /\ count.pubs = 52
  /\ Len(store[<<"ws", "buffer", "apple", "u1", "t1">>]) = 50
  /\ store[<<"ws", "buffer", "apple", "u1", "t1">>][1].data.id = 3
  /\ store[<<"ws", "buffer", "apple", "u1", "t1">>][50].data.id = 52
  /\ ttl[<<"ws", "buffer", "apple", "u1", "t1">>] = now + 86400000

\* the entries of a list that are at or beyond the delivery window at time t
TooOld(list, t) == {i \in 1..Len(list) : t - list[i].timestamp >= 300000}

\* no event was delivered to any connection by any route
NothingDelivered ==
  \A c \in Conns : \A i \in 1..Len(sent[c]) : sent[c][i].type # "event"

C18_FailedReadLeavesBuffer ==
  [][sendBufferedMessagesCatch
       => /\ sent' = sent
          /\ store' = store /\ ttl' = ttl
          /\ conn' = conn
          /\ Head(pending).topic \in conn'[Head(pending).c].subscribedTopics
          /\ clientsByUserId' = clientsByUserId]_vars

\* after a failed read, a second subscribe of the same connection replayed
\* the entry that had stayed in the buffer
W18_ReplayedOnLaterAttempt ==
  \E c \in Conns :
    /\ count.faults = 1 /\ count.pubs = 1 /\ pending = <<>>
    /\ conn[c].readyState = "OPEN"
    /\ ReplayIds(sent[c], 0) = <<1>>
    /\ \A d \in Conns \ {c} : conn[d].subscribedTopics = {}

\* C19: a replay pass sends only entries younger than five minutes, sends
\* every such entry it read when the connection is open, and deletes the key
\* when it read an entry that is not younger
C19_ReplaySkipsOldEntries ==
  [][sendBufferedMessages
       => LET c == Head(pending).c
              read == Head(pending).messages
              new == SubSeq(sent'[c], Len(sent[c]) + 1, Len(sent'[c]))
          IN /\ \A i \in 1..Len(new) : now - new[i].timestamp < 300000
             /\ conn[c].readyState = "OPEN"
                  => Len(new) = Len(read) - Cardinality(TooOld(read, now))
             /\ TooOld(read, now) # {}
                  => store'[BufferKey(Head(pending).user, Head(pending).topic)] = <<>>]_vars

\* five minutes on, an open connection was replayed the younger of two
\* buffered events only, and the key is gone
W19_OldEntryDiscarded ==
  \E c \in Conns :
    /\ now = StartTime + 300000 /\ count.pubs = 2 /\ count.faults = 0
    /\ conn[c].readyState = "OPEN"
    /\ ReplayIds(sent[c], 0) = <<2>>
    /\ \A d \in Conns \ {c} : conn[d].subscribedTopics = {} /\ conn[d].readyState = "OPEN"
    /\ \A i \in 1..Len(sent[c]) : sent[c][i].type = "event" => sent[c][i].id = 2
    /\ pending = <<>>
    /\ \A k \in KeySpace : store[k] = <<>>

\* C20: handling a subscribe frame adds the topic and sends nothing yet; the
\* step after the length query sends subscription_confirmed with the
\* connection's whole subscription set and the number of entries the key held;
\* a replay step sends entries only after the confirmation of its subscribe
C20_ConfirmBeforeReplay ==
  [][/\ \A c \in Conns, topic \in Topics :
          handleAuthenticatedMessage(c, SubscribeFrame(topic))
            => /\ conn'[c].subscribedTopics = conn[c].subscribedTopics \cup {topic}
               /\ sent' = sent
     /\ (handleSubscribe /\ conn[Head(pending).c].readyState = "OPEN")
          => sent'[Head(pending).c]
               = Append(sent[Head(pending).c],
                        [type |-> "subscription_confirmed", topic |-> Head(pending).topic,
                         activeSubscriptions |-> conn[Head(pending).c].subscribedTopics,
                         bufferedMessageCount |-> Len(Head(pending).held)])
     /\ (sendBufferedMessages /\ sent'[Head(pending).c] # sent[Head(pending).c])
          => \E i \in (Head(pending).mark + 1)..Len(sent[Head(pending).c]) :
               /\ sent[Head(pending).c][i].type = "subscription_confirmed"
               /\ sent[Head(pending).c][i].topic = Head(pending).topic]_vars

\* a connection holding two topics was confirmed the second with both topics
\* listed and one buffered entry counted, and was replayed that entry later
W20_ConfirmedThenReplayed ==
  \E c \in Conns, i, j \in 1..6 :
    /\ i < j /\ j <= Len(sent[c])
    /\ sent[c][i].type = "subscription_confirmed"
    /\ sent[c][i].activeSubscriptions = Topics
    /\ sent[c][i].bufferedMessageCount = 1
    /\ sent[c][j].type = "event" /\ sent[c][j].via = "replay"
    /\ sent[c][j].topic = sent[c][i].topic

\* C21: an unsubscribe frame removes the topic from the connection's own set,
\* sends an open connection unsubscription_confirmed with the set as it is
\* after the removal, and changes neither the store, nor the registry, nor
\* the commands in flight, nor any other connection; if the topic was not in
\* the set, the set stays as it was
C21_UnsubscribeOwnSetOnly ==
  [][\A c \in Conns, topic \in Topics :
       handleAuthenticatedMessage(c, UnsubscribeFrame(topic))
         => /\ conn'[c] = [conn[c] EXCEPT !.subscribedTopics = @ \ {topic}]
            /\ topic \notin conn[c].subscribedTopics => conn' = conn
            /\ \A d \in Conns \ {c} : conn'[d] = conn[d] /\ sent'[d] = sent[d]
            /\ sent'[c] = IF conn[c].readyState = "OPEN"
                            THEN Append(sent[c],
                                   [type |-> "unsubscription_confirmed", topic |-> topic,
                                    activeSubscriptions |-> conn[c].subscribedTopics \ {topic},
                                    bufferedMessageCount |-> 0])
                            ELSE sent[c]
            /\ store' = store /\ ttl' = ttl
            /\ clientsByUserId' = clientsByUserId
            /\ pending' = pending]_vars

\* a connection that held both topics was confirmed the removal of the first
\* and holds the second; an event is buffered and another connection holds a
\* topic
W21_UnsubscribedOne ==
  \E c, d \in Conns :
    /\ c # d /\ conn[d].subscribedTopics # {}
    /\ conn[c].subscribedTopics = {<<"t2">>}
    /\ Len(sent[c]) = 5
    /\ sent[c][4].type = "subscription_confirmed" /\ sent[c][4].activeSubscriptions = Topics
    /\ sent[c][5].type = "unsubscription_confirmed"
    /\ sent[c][5].topic = <<"t1">> /\ sent[c][5].activeSubscriptions = {<<"t2">>}
    /\ \E k \in KeySpace : store[k] # <<>>

\* C22: a replay pass that read a non-empty list completes whether or not
\* the key is still there: it sends an open connection the unexpired entries
\* it read, leaves the key absent and every other key as it was, closes
\* nothing, and its handler is done; so of two passes that read the same
\* list, the second deletes an absent key and nothing is raised
C22_OverlappingReplaysComplete ==
  [][(sendBufferedMessages /\ Head(pending).messages # <<>>)
       => LET t == Head(pending)
              key == BufferKey(t.user, t.topic)
              toSend == messagesToSend(t.messages, now)
          IN /\ store'[key] = <<>>
             /\ \A k \in KeySpace \ {key} : store'[k] = store[k]
             /\ pending' = Tail(pending)
             /\ conn' = conn /\ clientsByUserId' = clientsByUserId
             /\ \A d \in Conns \ {t.c} : sent'[d] = sent[d]
             /\ IF conn[t.c].readyState = "OPEN"
                  THEN /\ Len(sent'[t.c]) = Len(sent[t.c]) + Len(toSend)
                       /\ \A i \in 1..Len(toSend) :
                            sent'[t.c][Len(sent[t.c]) + i].id = toSend[i].id
                  ELSE sent'[t.c] = sent[t.c]]_vars

\* two connections were each replayed the same entry: both passes had read
\* the list before either deleted it; both are done and the key is absent
W22_BothPassesDone ==
  \E c, d \in Conns :
    /\ c # d /\ pending = <<>>
    /\ \E i \in 1..Len(sent[c]), j \in 1..Len(sent[d]) :
         /\ sent[c][i].type = "event" /\ sent[c][i].via = "replay"
         /\ sent[d][j].type = "event" /\ sent[d][j].via = "replay"
         /\ sent[c][i].id = sent[d][j].id
         /\ store[BufferKey(sent[c][i].user, sent[c][i].topic)] = <<>>

\* C23: a tick terminates every tracked connection that did not answer the
\* previous probe and no other; one that answered is marked pending and, if
\* open, probed again; the tick itself leaves the registry alone, and the
\* close event of a terminated connection takes it out of its identity's set,
\* dropping the entry when it was the last
C23_HeartbeatReclaimsSilent ==
  [][/\ Heartbeat
          => /\ \A c \in Conns :
                  IF ~Tracked(conn[c]) THEN conn'[c] = conn[c] /\ sent'[c] = sent[c]
                  ELSE IF ~conn[c].isAlive
                    THEN /\ conn'[c].terminated /\ conn'[c].readyState = "CLOSING"
                         /\ sent'[c] = sent[c]
                    ELSE /\ conn'[c] = [conn[c] EXCEPT !.isAlive = FALSE]
                         /\ sent'[c] = IF conn[c].readyState = "OPEN"
                                         THEN Append(sent[c], [type |-> "ping"])
                                         ELSE sent[c]
             /\ clientsByUserId' = clientsByUserId
     /\ \A c \in Conns :
          (CloseEvent(c) /\ conn[c].terminated)
            => /\ conn'[c].readyState = "CLOSED"
               /\ c \notin clientsByUserId'[conn[c].userId].set
               /\ clientsByUserId'[conn[c].userId].set
                    = clientsByUserId[conn[c].userId].set \ {c}
               /\ clientsByUserId'[conn[c].userId].has
                    = (clientsByUserId'[conn[c].userId].set # {})
               /\ \A u \in AllIds \ {conn[c].userId} :
                    clientsByUserId'[u] = clientsByUserId[u]]_vars

\* after two ticks one connection, silent since the first probe, was
\* terminated, closed and taken out of the registry, while another answered
\* both probes and is open and indexed
W23_SilentReclaimedAnsweringKept ==
  \E c, d \in Conns :
    /\ c # d /\ count.ticks = 2
    /\ conn[c].terminated /\ conn[c].readyState = "CLOSED"
    /\ \A u \in AllIds : c \notin clientsByUserId[u].set
    /\ conn[d].readyState = "OPEN" /\ conn[d].isAlive /\ ~conn[d].terminated
    /\ sent[d] = <<[type |-> "connected"], [type |-> "ping"], [type |-> "ping"]>>
    /\ d \in clientsByUserId[conn[d].userId].set

\* C24: once shutdown() has returned the ping interval is cleared, the
\* server is closed to upgrades, no tracked connection is open and the
\* cleanup interval is cleared too
C24_Original_ShutdownReleasesAll ==
  manager.wss = "CLOSED"
    => /\ ~manager.pingInterval
       /\ ~manager.cleanupInterval
       /\ \A c \in Conns : conn[c].readyState # "OPEN"

\* C25: the index never holds an identity with an empty set; the close event
\* of a connection takes it out of the set of the identity it is bound to,
\* drops the entry if that set is left empty, leaves the other identities'
\* entries alone and changes no key of the store
C25_CloseDropsEmptiedEntry ==
  /\ [](\A u \in AllIds : clientsByUserId[u].has => clientsByUserId[u].set # {})
  /\ [][\A c \in Conns :
          CloseEvent(c)
            => /\ conn'[c].readyState = "CLOSED"
               /\ conn[c].userId # NoUser
                    => /\ clientsByUserId'[conn[c].userId].set
                            = clientsByUserId[conn[c].userId].set \ {c}
                       /\ clientsByUserId'[conn[c].userId].has
                            = (clientsByUserId[conn[c].userId].set \ {c} # {})
               /\ \A u \in AllIds \ {conn[c].userId} :
                    clientsByUserId'[u] = clientsByUserId[u]
               /\ store' = store /\ ttl' = ttl]_vars

\* the only connection of an identity closed: the identity is gone from the
\* index, the other identity is still indexed, and an event buffered for the
\* first is still in the store
W25_LastConnectionClosed ==
  \E c, d \in Conns, topic \in Topics :
    /\ conn[c].readyState = "CLOSED" /\ conn[c].userId \in Identities
    /\ ~clientsByUserId[conn[c].userId].has
    /\ conn[d].userId # conn[c].userId /\ clientsByUserId[conn[d].userId].set = {d}
    /\ store[BufferKey(conn[c].userId, topic)] # <<>>

\* the handler of task t ended in accept: the connection is bound to an
\* identity and left the handshake
Accepted(t) ==
  /\ ~conn'[t.c].isAuthenticating /\ conn'[t.c].userId # NoUser
  /\ conn'[t.c].readyState = conn[t.c].readyState

\* the handler of task t ended in reject: nothing bound, nothing indexed,
\* nothing sent, an open connection closed with the auth-failed code
Rejected(t) ==
  /\ conn'[t.c].userId = conn[t.c].userId
  /\ conn'[t.c].isAuthenticating = conn[t.c].isAuthenticating
  /\ conn[t.c].readyState = "OPEN"
       => conn'[t.c].readyState = "CLOSING" /\ conn'[t.c].closeCode = AUTH_FAILED_CODE
  /\ clientsByUserId' = clientsByUserId /\ sent' = sent

\* C26: the attempt that verifies a token leaves the verifier's verdict in the
\* cache and ends in accept exactly if the verdict is a success; an attempt
\* that finds the token cached does not go to the verifier, leaves the cache
\* as it is and ends in accept exactly if the cached verdict is a success
C26_CachedVerdictRepeats ==
  [][\A t \in tasks :
       /\ \A v \in verifyAppleToken(t.token) :
            AuthVerifyReply(t, v)
              => /\ cache'[t.token].has /\ cache'[t.token].res.success = v.success
                 /\ IF v.success THEN Accepted(t) ELSE Rejected(t)
       /\ (AuthCacheReply(t) /\ t.cached.has)
            => /\ tasks' = tasks \ {t}
               /\ cache' = cache
               /\ IF t.cached.res.success THEN Accepted(t) ELSE Rejected(t)]_vars

\* one connection was accepted on a fresh verification and another on the
\* cached verdict of the same subject, which is still in the cache
W26_AcceptedFromCache ==
  \E c, d \in Conns :
    /\ c # d
    /\ ~conn[c].isAuthenticating /\ ~conn[d].isAuthenticating
    /\ conn[d].userId \in Subjects /\ conn[c].userId = ApplePrefix(conn[d].userId)
    /\ cache[TokA].has /\ cache[TokA].res.success

\* C27 as stated: a frame that is no valid subscribe, unsubscribe or ping
\* (an auth frame, a subscribe or unsubscribe without a valid topic, an
\* unknown type, a non-object), handled on an open authenticated connection,
\* closes that connection with a status code
C27_Original_OutOfStateFrameCloses ==
  [][\A c \in Conns, data \in SessionInputs :
       (/\ handleAuthenticatedMessage(c, data)
        /\ conn[c].readyState = "OPEN"
        /\ ~isSubscribeMessage(data) /\ ~isUnsubscribeMessage(data) /\ ~isPingMessage(data))
         => (conn'[c].readyState = "CLOSING" /\ conn'[c].closeCode # 0)]_vars

\* C30: a frame that is no valid subscribe, unsubscribe or ping, handled on
\* an open authenticated connection, is answered with one error frame that
\* names the frame's type ("unknown" if it has none); the connection stays
\* open and nothing else changes: subscription sets, registry, store,
\* commands in flight
C30_UnknownFrameAnswered ==
  [][\A c \in Conns, data \in SessionInputs :
       (/\ handleAuthenticatedMessage(c, data)
        /\ conn[c].readyState = "OPEN"
        /\ ~isSubscribeMessage(data) /\ ~isUnsubscribeMessage(data) /\ ~isPingMessage(data))
         => /\ sent' = [sent EXCEPT ![c] =
                          Append(@, [type |-> "error",
                                     messageType |-> IF data.isObject /\ data.type # ""
                                                       THEN data.type ELSE "unknown"])]
            /\ conn' = conn
            /\ clientsByUserId' = clientsByUserId
            /\ store' = store /\ ttl' = ttl /\ pending' = pending]_vars

\* an open connection that holds a topic was told that "auth" is an unknown
\* type; it is still indexed and an event is buffered
W30_AuthFrameAnswered ==
  \E c \in Conns :
    /\ conn[c].readyState = "OPEN" /\ conn[c].subscribedTopics # {}
    /\ sent[c][Len(sent[c])] = [type |-> "error", messageType |-> "auth"]
    /\ c \in clientsByUserId[conn[c].userId].set
    /\ \E k \in KeySpace : store[k] # <<>>

\* the entry of the publish that task t belongs to is in no list
Dropped(t) ==
  \A k \in KeySpace : \A i \in 1..Len(store'[k]) : store'[k][i].data.id # t.n

\* C28 as stated: whichever store command of an enqueue is rejected, the
\* payload is dropped, and connections and registry are as they were
C28_Original_FailedEnqueueDropsPayload ==
  [][/\ \A u \in Identities, topic \in Topics :
          (sendToSubscribedClients(u, topic) /\ count'.rejects > count.rejects)
            => (store' = store /\ conn' = conn /\ clientsByUserId' = clientsByUserId)
     /\ bufferMessageCatch
          => (/\ Dropped(Head(pending))
              /\ conn' = conn /\ clientsByUserId' = clientsByUserId)]_vars

\* C29: a replay pass that finds its connection no longer open sends none of
\* the entries it read, appends none of them back (no list grows, no enqueue
\* is started), and still deletes the key
C29_CloseMidReplayDropsBatch ==
  [][(/\ sendBufferedMessages
      /\ Head(pending).messages # <<>>
      /\ conn[Head(pending).c].readyState # "OPEN")
       => /\ sent' = sent
          /\ store'[BufferKey(Head(pending).user, Head(pending).topic)] = <<>>
          /\ \A k \in KeySpace : Len(store'[k]) <= Len(store[k])
          /\ pending' = Tail(pending)]_vars

\* a connection was confirmed a topic with two buffered entries and closed
\* before the replay ran: it got neither, the key is gone although no read
\* failed and no time passed, no command is in flight, and the other
\* connection is open and got no entry either
W29_BatchLost ==
  \E c, d \in Conns :
    /\ c # d /\ pending = <<>> /\ now = StartTime /\ count.faults = 0
    /\ conn[c].readyState = "CLOSED" /\ conn[d].readyState = "OPEN"
    /\ Len(sent[c]) = 3
    /\ sent[c][3].type = "subscription_confirmed" /\ sent[c][3].bufferedMessageCount = 2
    /\ Len(sent[d]) = 2
    /\ store[BufferKey(conn[c].userId, sent[c][3].topic)] = <<>>

\* C31 as stated: a success taken from the cache binds and reports the very
\* identity a fresh verification of the same token binds and reports, and the
\* connection is indexed where a publish to 'apple:' + subject looks for it
C31_Original_CacheBindsAsFresh ==
  [][\A t \in tasks :
       (/\ AuthCacheReply(t) /\ t.stage = "cache"
        /\ t.cached.has /\ t.cached.res.success
        /\ conn[t.c].readyState = "OPEN")
         => \E v \in verifyAppleToken(t.token) :
              /\ v.success
              /\ conn'[t.c].userId = FreshResult(v).userId
              /\ AuthSuccessFrame(FreshResult(v).userId)
                   \in {sent'[t.c][i] : i \in (Len(sent[t.c]) + 1)..Len(sent'[t.c])}
              /\ t.c \in RegGet(clientsByUserId', ApplePrefix(SubjectOf(t.token)))]_vars

\* the entries of a list, as a set
Entries(list) == {list[i] : i \in 1..Len(list)}

\* C32 as stated: the step that ends a replay removes from the key of
\* (identity, topic) no entry that the replay's read did not return
C32_Original_ReplayDeletesOnlyRead ==
  [][sendBufferedMessages
       => Entries(store[BufferKey(Head(pending).user, Head(pending).topic)])
            \ Entries(Head(pending).messages)
          \subseteq Entries(store'[BufferKey(Head(pending).user, Head(pending).topic)])]_vars

\* the frames a step appended to the log of connection c
NewFrames(c) == {sent'[c][i] : i \in (Len(sent[c]) + 1)..Len(sent'[c])}

\* C33 as stated: a replayed entry of a topic is sent to a connection only
\* while the topic is in the subscription set of that connection
C33_Original_ReplayWithinSubscription ==
  [][\A c \in Conns : \A f \in NewFrames(c) :
       (f.type = "event" /\ f.via = "replay")
         => f.topic \in conn[c].subscribedTopics]_vars

\* the positions in the log of connection c of the events of topic that a
\* publish or a replay sent
TopicEvents(c, topic) ==
  {i \in 1..Len(sent[c]) :
     /\ sent[c][i].type = "event" /\ sent[c][i].via \in {"publish", "replay"}
     /\ sent[c][i].topic = topic}

\* C34 as stated: the events of one topic reach a connection in the order
\* they were published, never a younger one ahead of an older one
C34_Original_PublishOrderKept ==
  \A c \in Conns, topic \in Topics :
    \A i, j \in TopicEvents(c, topic) :
      i < j => sent[c][i].id <= sent[c][j].id

\* C35 as stated: every event of a topic in the log of a connection comes
\* after a subscription_confirmed for that topic in the same log
C35_Original_ConfirmBeforeAnyEvent ==
  \A c \in Conns, topic \in Topics :
    \A i \in TopicEvents(c, topic) :
      \E j \in 1..(i - 1) :
        sent[c][j].type = "subscription_confirmed" /\ sent[c][j].topic = topic

\* a subscribe handler, a replay or an enqueue for (u, topic) awaits the store
InProgress(u, topic) ==
  \E i \in 1..Len(pending) : pending[i].user = u /\ pending[i].topic = topic

C37_Original_ReplayWithinPair ==
  \A c \in Conns : \A i \in 1..Len(sent[c]) :
    (sent[c][i].type = "event" /\ sent[c][i].via = "replay")
      => /\ conn[c].userId = ApplePrefix(<<"u1">>)
         /\ sent[c][i].topic = <<"conversation", "42">>

====
